---- MODULE Spec2Model ----
(***************************************************************************)
(* The user resolvers of server/graphql/resolvers/users.ts: the module-    *)
(* level userLoader (a DataLoader over User.find), lookupUser,             *)
(* transformUser, the users query and the user mutations, running on one   *)
(* Node event loop against one user collection.                            *)
(*                                                                         *)
(* One action is one uninterrupted run of JavaScript: a resolver call up   *)
(* to its first await on I/O, the loader's dispatch tick, or the callback  *)
(* of a finished store call together with the synchronous rest of every    *)
(* handler it resumes.  A store write and the callback that reports it are *)
(* one step.  The window of the loader is dispatched on the next tick,     *)
(* before any I/O callback runs, so no callback step is enabled while a    *)
(* window is open.                                                         *)
(*                                                                         *)
(* Roles are sets (the order and multiplicity of IUserDocument.roles are   *)
(* read by no resolver); updatedBy, names, email and picture are left out. *)
(***************************************************************************)
EXTENDS Integers, Sequences, FiniteSets, TLC

\* ---------------------------------------------------------------- bounds
MaxReq == 2          \* resolver calls in progress at the same time
MaxId == 3           \* user ids 1..MaxId; ids above InitialUsers are unused at start
MaxLoads == 2        \* SpecQueries follows this many calls that wait on the loader
MaxWrites == 2       \* SpecGated follows this many successful mutations
FullLoads == 1       \* Spec follows this many calls that wait on the loader
FullWrites == 1      \* and this many successful mutations

\* ------------------------------------------------------- roles and values
\* usersModel.rolesAvailable (a numeric enum) and rolesAvailableKeys
student == 0
teacher == 1
admin == 2
super == 3
rolesAvailableKeys == <<"student", "teacher", "admin", "super">>

Undefined == "<undefined>"
Ids == 1..MaxId
EmptyId == 0
ReqIds == 1..MaxReq

\* rolesAvailableKeys.indexOf(role): the 0-based index, -1 when absent
indexOf(keys, role) ==
  IF \E i \in 1..Len(keys) : keys[i] = role
  THEN (CHOOSE i \in 1..Len(keys) : keys[i] = role /\ \A j \in 1..(i - 1) : keys[j] # role) - 1
  ELSE -1

\* x || ""  for a string that may be undefined
OrEmpty(x) == IF x = Undefined \/ x = "" THEN "" ELSE x

\* the authenticated callers (req.user) the transport layer supplies
Callers ==
  <<[roles |-> {super}, domain |-> Undefined],
    [roles |-> {admin}, domain |-> "A"],
    [roles |-> {teacher}, domain |-> Undefined],
    [roles |-> {student}, domain |-> "A"]>>
CallerIds == 1..Len(Callers)

\* inputs of the mutations
RoleLists == {<<"teacher">>, <<"super", "admin">>, <<"nosuch">>}
DomainArgs == {Undefined, "B"}

\* ----------------------------------------------------------- the store
NoUser == [exists |-> FALSE, roles |-> {}, domain |-> Undefined]
NullDoc == [id |-> 0, roles |-> {}, domain |-> Undefined]
Doc(id, u) == [id |-> id, roles |-> u.roles, domain |-> u.domain]

\* all orders of a finite set
RECURSIVE Perms(_)
Perms(S) ==
  IF S = {} THEN {<<>>}
  ELSE UNION {{<<x>> \o p : p \in Perms(S \ {x})} : x \in S}

Range(s) == {s[i] : i \in 1..Len(s)}

\* User.find({_id: {$in: userIds}}): the documents that exist, each once, in an
\* order the query does not fix
UserFind(st, userIds) ==
  {[i \in 1..Len(p) |-> Doc(p[i], st[p[i]])] :
     p \in Perms({k \in Range(userIds) : st[k].exists})}

\* ----------------------------------------------------------- the loader
\* a promise handed out by load: pending on slot i of batch b, fulfilled with
\* doc, or rejected
NoPromise == [st |-> "none", b |-> 0, i |-> 0, doc |-> NullDoc, e |-> ""]
Pending(b, i) == [st |-> "pend", b |-> b, i |-> i, doc |-> NullDoc, e |-> ""]
Fulfilled(d) == [st |-> "val", b |-> 0, i |-> 0, doc |-> d, e |-> ""]
Rejected(e) == [st |-> "rej", b |-> 0, i |-> 0, doc |-> NullDoc, e |-> e]

FreeBatch == [st |-> "free", keys |-> <<>>, values |-> <<>>, err |-> FALSE]

VARIABLES
  store,        \* the user collection: id -> [exists, roles, domain]
  nextId,       \* the id the next created user gets
  cache,        \* userLoader's cache map: key -> promise
  batches,      \* userLoader's batches: the open window and the dispatched ones
  fetchCalls,   \* calls of the batch function
  windows,      \* windows dispatched
  req,          \* resolver calls suspended on an await
  out,          \* what the resolver calls that finished in the last step returned
  mutated,      \* ids a mutation has reported success on
  loadsLeft,    \* calls that may still wait on the loader
  writesLeft    \* mutations that may still succeed

vars == <<store, nextId, cache, batches, fetchCalls, windows, req, out, mutated, loadsLeft, writesLeft>>
loaderVars == <<cache, batches, fetchCalls, windows>>

\* the responses of the last step are sent: the next call or callback may run
Ready == out = {}

WindowOpen == \E b \in ReqIds : batches[b].st = "open"

\* the batch the next uncached key goes to: the open window, else a new one
CurrentBatch(bs) ==
  IF \E b \in ReqIds : bs[b].st = "open"
  THEN CHOOSE b \in ReqIds : bs[b].st = "open"
  ELSE CHOOSE b \in ReqIds : bs[b].st = "free" /\ \A c \in 1..(b - 1) : bs[c].st # "free"

\* load that shares a promise only while it is pending
load_pendingOnly(L, key) ==
  IF L.cache[key].st = "pend"
  THEN [L |-> L, p |-> L.cache[key]]
  ELSE LET b == CurrentBatch(L.batches)
           keys == Append(L.batches[b].keys, key)
           p == Pending(b, Len(keys))
       IN [L |-> [cache |-> [L.cache EXCEPT ![key] = p],
                  batches |-> [L.batches EXCEPT ![b] = [FreeBatch EXCEPT !.st = "open", !.keys = keys]]],
           p |-> p]

\* DataLoader.load(key) on the loader state L = [cache, batches]: the cached
\* promise when there is one, else a new slot in the current batch, cached
load(L, key) ==
  IF L.cache[key].st # "none"
  THEN [L |-> L, p |-> L.cache[key]]
  ELSE LET b == CurrentBatch(L.batches)
           keys == Append(L.batches[b].keys, key)
           p == Pending(b, Len(keys))
       IN [L |-> [cache |-> [L.cache EXCEPT ![key] = p],
                  batches |-> [L.batches EXCEPT ![b] = [FreeBatch EXCEPT !.st = "open", !.keys = keys]]],
           p |-> p]

\* DataLoader.loadMany(keys): load for each key in order, the promises in order
RECURSIVE loadMany(_, _)
loadMany(L, keys) ==
  IF keys = <<>> THEN [L |-> L, ps |-> <<>>]
  ELSE LET first == load(L, Head(keys))
           rest == loadMany(first.L, Tail(keys))
       IN [L |-> rest.L, ps |-> <<first.p>> \o rest.ps]

Settled(ps) == \A i \in 1..Len(ps) : ps[i].st \in {"val", "rej"}


\* ------------------------------------------------------------ responses
NoReq == [pc |-> "idle", caller |-> 0, id |-> 0, ids |-> <<>>, ps |-> <<>>]

\* what a resolver call gave back: a value (kind "value"), the uniform response
\* (kind "response"), a refusal of rolesFilter (kind "authError") or an exception
\* (kind "thrown"); invoked: the wrapped handler ran; loaded: what the loader
\* resolved to; waited: the call was suspended before it returned
Returned(op, c, id, ids, invoked, kind, success, msg, loaded, list) ==
  [op |-> op, caller |-> c, id |-> id, ids |-> ids, invoked |-> invoked, kind |-> kind,
   success |-> success, msg |-> msg, loaded |-> loaded, list |-> list, waited |-> FALSE]

\* { success: true, ..., __typename: "OkResponse" }
OkResponse(op, c, id) ==
  Returned(op, c, id, <<>>, TRUE, "response", TRUE, "", <<>>, <<>>)

\* helpers.composeErrorResponse(err): the uniform failure response
composeErrorResponse(op, c, id, err) ==
  Returned(op, c, id, <<>>, TRUE, "response", FALSE, err, <<>>, <<>>)

\* the anyOf option of rolesFilter as written: a list of roles, or one role
RoleList(roles) == [isArray |-> TRUE, one |-> 0, many |-> roles]
OneRole(role) == [isArray |-> FALSE, one |-> role, many |-> {}]

\* helpers.rolesFilter's test: the caller holds one of opt.anyOf, which is a
\* role or a list of roles
rolesFilter(anyOf, c) ==
  LET wanted == IF anyOf.isArray THEN anyOf.many ELSE {anyOf.one}
  IN Callers[c].roles \cap wanted # {}

\* helpers.rolesFilter's refusal: the wrapped handler is not called
Refuse(op, c, id, ids) ==
  /\ out' = {Returned(op, c, id, ids, FALSE, "authError", FALSE, "insufficient role", <<>>, <<>>)}
  /\ UNCHANGED <<store, nextId, cache, batches, fetchCalls, windows, req, mutated, loadsLeft, writesLeft>>

\* the anyOf option of each gated resolver
anyOf_users == RoleList({admin, super, teacher})
anyOf_userCreateStudent == RoleList({admin, super})
anyOf_userChangeRoles == RoleList({admin, super})
anyOf_userMoveToDomain == RoleList({admin, super})
anyOf_userSetSuperUser == OneRole(super)
anyOf_userDeleteUser == RoleList({admin, super})

IsSuper(c) == super \in Callers[c].roles

\* ------------------------------------------------------------- queries
transformUser(user) ==
  [id |-> user.id,
   domain |-> OrEmpty(user.domain),
   roles |-> {rolesAvailableKeys[role + 1] : role \in user.roles}]

\* the users handler from the resolution of loadMany on: an Error among the
\* loaded values makes transformUser throw, and the handler rethrows
usersResume(c, ids, ps) ==
  IF \E i \in 1..Len(ps) : ps[i].st = "rej"
  THEN Returned("users", c, 0, ids, TRUE, "thrown", FALSE, "TypeError", <<>>, <<>>)
  ELSE LET loaded == [i \in 1..Len(ps) |-> ps[i].doc]
           res == [i \in 1..Len(ps) |-> transformUser(loaded[i])]
           mine(u) == u.domain = OrEmpty(Callers[c].domain)
       IN Returned("users", c, 0, ids, TRUE, "value", TRUE, "", loaded,
                   IF IsSuper(c) THEN res ELSE SelectSeq(res, mine))

\* lookupUser from the resolution of load on
lookupUserResume(userId, p) ==
  IF p.st = "rej"
  THEN Returned("lookupUser", 0, userId, <<>>, TRUE, "thrown", FALSE, p.e, <<>>, <<>>)
  ELSE IF p.doc = NullDoc
  THEN Returned("lookupUser", 0, userId, <<>>, TRUE, "thrown", FALSE, "User not found!", <<>>, <<>>)
  ELSE Returned("lookupUser", 0, userId, <<>>, TRUE, "value", TRUE, "", <<p.doc>>, <<>>)

Resume(q) ==
  IF q.pc = "users" THEN usersResume(q.caller, q.ids, q.ps)
  ELSE lookupUserResume(q.id, q.ps[1])

\* the lowest free place for a suspended call
Suspend(q) ==
  /\ \E r \in ReqIds : req[r].pc = "idle"
  /\ LET r == CHOOSE x \in ReqIds : req[x].pc = "idle" /\ \A y \in 1..(x - 1) : req[y].pc # "idle"
     IN req' = [req EXCEPT ![r] = q]
  /\ out' = {}

\* a call suspended on the loader
Wait(q) ==
  /\ Suspend(q)
  /\ loadsLeft > 0
  /\ loadsLeft' = loadsLeft - 1

\* a call that has to wait needs a place to wait in
CanLoad(keys) ==
  \/ \A k \in Range(keys) : cache[k].st # "none"
  \/ \E r \in ReqIds : req[r].pc = "idle"

usersHandler(c, ids) ==
  CanLoad(ids) /\
  LET res == loadMany([cache |-> cache, batches |-> batches], ids)
  IN /\ cache' = res.L.cache
     /\ batches' = res.L.batches
     /\ IF Settled(res.ps)
        THEN out' = {usersResume(c, ids, res.ps)} /\ UNCHANGED <<req, loadsLeft>>
        ELSE Wait([pc |-> "users", caller |-> c, id |-> 0, ids |-> ids, ps |-> res.ps])
     /\ UNCHANGED <<store, nextId, fetchCalls, windows, mutated, writesLeft>>

users(c, ids) ==
  Ready /\
  IF rolesFilter(anyOf_users, c) THEN usersHandler(c, ids) ELSE Refuse("users", c, 0, ids)

userAvailableRoles(c) ==
  /\ Ready
  /\ out' = {Returned("userAvailableRoles", c, 0, <<>>, TRUE, "value", TRUE, "", <<>>, <<>>)}
  /\ UNCHANGED <<store, nextId, cache, batches, fetchCalls, windows, req, mutated, loadsLeft, writesLeft>>

lookupUser(userId) ==
  Ready /\
  IF userId = EmptyId
  THEN /\ out' = {Returned("lookupUser", 0, userId, <<>>, TRUE, "value", TRUE, "", <<>>, <<>>)}
       /\ UNCHANGED <<store, nextId, cache, batches, fetchCalls, windows, req, mutated, loadsLeft, writesLeft>>
  ELSE CanLoad(<<userId>>) /\
       LET res == load([cache |-> cache, batches |-> batches], userId)
       IN /\ cache' = res.L.cache
          /\ batches' = res.L.batches
          /\ IF Settled(<<res.p>>)
             THEN out' = {lookupUserResume(userId, res.p)} /\ UNCHANGED <<req, loadsLeft>>
             ELSE Wait([pc |-> "lookupUser", caller |-> 0, id |-> userId, ids |-> <<>>, ps |-> <<res.p>>])
          /\ UNCHANGED <<store, nextId, fetchCalls, windows, mutated, writesLeft>>

\* ---------------------------------------------------- the loader's ticks
\* a dispatch that calls the batch function once for each key
Dispatch_perKey(b) ==
  /\ Ready
  /\ batches[b].st = "open"
  /\ batches' = [batches EXCEPT ![b].st = "sent"]
  /\ fetchCalls' = fetchCalls + Len(batches[b].keys)
  /\ windows' = windows + 1
  /\ out' = {}
  /\ UNCHANGED <<store, nextId, cache, req, mutated, loadsLeft, writesLeft>>

\* the dispatch tick: the window closes and the batch function is called with
\* its keys
Dispatch(b) ==
  /\ Ready
  /\ batches[b].st = "open"
  /\ batches' = [batches EXCEPT ![b].st = "sent"]
  /\ fetchCalls' = fetchCalls + 1
  /\ windows' = windows + 1
  /\ out' = {}
  /\ UNCHANGED <<store, nextId, cache, req, mutated, loadsLeft, writesLeft>>

\* the store answers User.find, or fails
DbFind(b) ==
  /\ Ready
  /\ batches[b].st = "sent"
  /\ \/ \E values \in UserFind(store, batches[b].keys) :
          batches' = [batches EXCEPT ![b].st = "read", ![b].values = values]
     \/ batches' = [batches EXCEPT ![b].st = "read", ![b].err = TRUE]
  /\ out' = {}
  /\ UNCHANGED <<store, nextId, cache, fetchCalls, windows, req, mutated, loadsLeft, writesLeft>>

\* DataLoader's dispatchBatch, once the batch function has resolved: values are
\* given to keys by position; a rejection, or a result of another length than
\* the keys, clears the keys from the cache and rejects every load of the batch
Outcome(bt, i) ==
  IF bt.err THEN Rejected("StoreError")
  ELSE IF Len(bt.values) # Len(bt.keys) THEN Rejected("TypeError")
  ELSE Fulfilled(bt.values[i])

SettleP(b, p) == IF p.st = "pend" /\ p.b = b THEN Outcome(batches[b], p.i) ELSE p

SettleReq(b, q) == [q EXCEPT !.ps = [i \in 1..Len(q.ps) |-> SettleP(b, q.ps[i])]]

FetchReturn(b) ==
  /\ Ready
  /\ batches[b].st = "read"
  /\ ~WindowOpen
  /\ cache' = [k \in Ids |->
                 IF cache[k].st = "pend" /\ cache[k].b = b
                 THEN IF Outcome(batches[b], cache[k].i).st = "val"
                      THEN Outcome(batches[b], cache[k].i)
                      ELSE NoPromise
                 ELSE cache[k]]
  /\ batches' = [batches EXCEPT ![b] = FreeBatch]
  /\ req' = [r \in ReqIds |->
               IF req[r].pc \in {"users", "lookupUser"} /\ Settled(SettleReq(b, req[r]).ps)
               THEN NoReq
               ELSE IF req[r].pc \in {"users", "lookupUser"} THEN SettleReq(b, req[r])
               ELSE req[r]]
  /\ out' = {[Resume(SettleReq(b, req[r])) EXCEPT !.waited = TRUE] :
               r \in {x \in ReqIds : /\ req[x].pc \in {"users", "lookupUser"}
                                     /\ Settled(SettleReq(b, req[x]).ps)}}
  /\ UNCHANGED <<store, nextId, fetchCalls, windows, mutated, loadsLeft, writesLeft>>


\* ----------------------------------------------------------- mutations
\* a mutation that ends in this step with response o and store st; a success
\* on id is remembered
Finish(o, st, id) ==
  /\ out' = {o}
  /\ store' = st
  /\ mutated' = IF o.success /\ id \in Ids THEN mutated \cup {id} ELSE mutated
  /\ o.success => writesLeft > 0
  /\ writesLeft' = IF o.success THEN writesLeft - 1 ELSE writesLeft
  /\ UNCHANGED loadsLeft

userCreateStudentHandler(c, domain) ==
  /\ ~WindowOpen
  /\ nextId <= MaxId
  /\ \/ /\ Finish(OkResponse("userCreateStudent", c, nextId),
                  [store EXCEPT ![nextId] =
                     [exists |-> TRUE, roles |-> {student}, domain |-> OrEmpty(domain)]],
                  EmptyId)
        /\ nextId' = nextId + 1
     \/ /\ Finish(composeErrorResponse("userCreateStudent", c, 0, "StoreError"), store, EmptyId)
        /\ UNCHANGED nextId
  /\ UNCHANGED <<cache, batches, fetchCalls, windows, req>>

userCreateStudent(c, domain) ==
  Ready /\
  IF rolesFilter(anyOf_userCreateStudent, c)
  THEN userCreateStudentHandler(c, domain)
  ELSE Refuse("userCreateStudent", c, 0, <<>>)

\* userChangeRolesBody without the test of the caller's super role
userChangeRolesBody_noSuperTest(c, id, roles, fails) ==
  LET idx == {indexOf(rolesAvailableKeys, roles[i]) : i \in 1..Len(roles)}
      op == "userChangeRoles"
  IN IF \E i \in idx : i < 0
     THEN [o |-> composeErrorResponse(op, c, id, "Role not valid"), st |-> store]
     ELSE IF fails
     THEN [o |-> composeErrorResponse(op, c, id, "StoreError"), st |-> store]
     ELSE IF ~store[id].exists
     THEN [o |-> composeErrorResponse(op, c, id, "Failed to match user"), st |-> store]
     ELSE [o |-> OkResponse(op, c, id), st |-> [store EXCEPT ![id].roles = idx]]

\* the response and the store after the body of userChangeRoles
userChangeRolesBody(c, id, roles, fails) ==
  LET idx == {indexOf(rolesAvailableKeys, roles[i]) : i \in 1..Len(roles)}
      op == "userChangeRoles"
  IN IF \E i \in idx : i < 0
     THEN [o |-> composeErrorResponse(op, c, id, "Role not valid"), st |-> store]
     ELSE IF super \in idx /\ ~IsSuper(c)
     THEN [o |-> composeErrorResponse(op, c, id, "Can't set super admin role"), st |-> store]
     ELSE IF fails
     THEN [o |-> composeErrorResponse(op, c, id, "StoreError"), st |-> store]
     ELSE IF ~store[id].exists
     THEN [o |-> composeErrorResponse(op, c, id, "Failed to match user"), st |-> store]
     ELSE [o |-> OkResponse(op, c, id), st |-> [store EXCEPT ![id].roles = idx]]

userChangeRolesHandler(c, id, roles) ==
  /\ ~WindowOpen
  /\ \E fails \in BOOLEAN :
       LET r == userChangeRolesBody(c, id, roles, fails) IN Finish(r.o, r.st, id)
  /\ UNCHANGED <<nextId, cache, batches, fetchCalls, windows, req>>

userChangeRoles(c, id, roles) ==
  Ready /\
  IF rolesFilter(anyOf_userChangeRoles, c)
  THEN userChangeRolesHandler(c, id, roles)
  ELSE Refuse("userChangeRoles", c, id, <<>>)

\* the response and the store after the body of userMoveToDomain
userMoveToDomainBody(c, id, domainArg, fails) ==
  LET domain == IF domainArg = Undefined \/ domainArg = ""
                THEN OrEmpty(Callers[c].domain) ELSE domainArg
      op == "userMoveToDomain"
  IN IF ~IsSuper(c) /\ domain # Callers[c].domain /\ domain # ""
     THEN [o |-> composeErrorResponse(op, c, id, "You dont have priviledges"), st |-> store]
     ELSE IF fails
     THEN [o |-> composeErrorResponse(op, c, id, "StoreError"), st |-> store]
     ELSE IF ~store[id].exists
     THEN [o |-> composeErrorResponse(op, c, id, "User not found!"), st |-> store]
     ELSE [o |-> OkResponse(op, c, id), st |-> [store EXCEPT ![id].domain = domain]]

userMoveToDomainHandler(c, id, domainArg) ==
  /\ ~WindowOpen
  /\ \E fails \in BOOLEAN :
       LET r == userMoveToDomainBody(c, id, domainArg, fails) IN Finish(r.o, r.st, id)
  /\ UNCHANGED <<nextId, cache, batches, fetchCalls, windows, req>>

userMoveToDomain(c, id, domainArg) ==
  Ready /\
  IF rolesFilter(anyOf_userMoveToDomain, c)
  THEN userMoveToDomainHandler(c, id, domainArg)
  ELSE Refuse("userMoveToDomain", c, id, <<>>)

\* userSetSuperUser up to the answer of User.findOne
userSetSuperUserHandler(c, id) ==
  /\ ~WindowOpen
  /\ \E fails \in BOOLEAN :
       IF fails
       THEN Finish(composeErrorResponse("userSetSuperUser", c, id, "StoreError"), store, id)
            /\ UNCHANGED req
       ELSE IF ~store[id].exists
       THEN Finish(composeErrorResponse("userSetSuperUser", c, id, "User not found!"), store, id)
            /\ UNCHANGED req
       ELSE /\ Suspend([pc |-> "setSuper", caller |-> c, id |-> id, ids |-> <<>>, ps |-> <<>>])
            /\ UNCHANGED <<store, mutated, loadsLeft, writesLeft>>
  /\ UNCHANGED <<nextId, cache, batches, fetchCalls, windows>>

\* userSetSuperUser gated like the other mutations
userSetSuperUser_adminToo(c, id) ==
  Ready /\
  IF rolesFilter(anyOf_userChangeRoles, c)
  THEN userSetSuperUserHandler(c, id)
  ELSE Refuse("userSetSuperUser", c, id, <<>>)

userSetSuperUser(c, id) ==
  Ready /\
  IF rolesFilter(anyOf_userSetSuperUser, c)
  THEN userSetSuperUserHandler(c, id)
  ELSE Refuse("userSetSuperUser", c, id, <<>>)

\* userSetSuperUser from user.roles.push on: user.save() pushes the role to the
\* stored document, and fails when the document is gone
userSetSuperUserSave(r) ==
  /\ Ready
  /\ req[r].pc = "setSuper"
  /\ ~WindowOpen
  /\ LET c == req[r].caller
         id == req[r].id
     IN \E fails \in BOOLEAN :
          IF fails
          THEN Finish(composeErrorResponse("userSetSuperUser", c, id, "StoreError"), store, id)
          ELSE IF ~store[id].exists
          THEN Finish(composeErrorResponse("userSetSuperUser", c, id, "DocumentNotFoundError"), store, id)
          ELSE Finish([OkResponse("userSetSuperUser", c, id) EXCEPT !.waited = TRUE],
                      [store EXCEPT ![id].roles = @ \cup {super}], id)
  /\ req' = [req EXCEPT ![r] = NoReq]
  /\ UNCHANGED <<nextId, cache, batches, fetchCalls, windows>>

\* the documents User.deleteOne({_id, domain: domainFilter?.domain}) matches: a
\* caller without super gives {$eq: own domain}; a super caller gives undefined,
\* which the driver drops when it ignores undefined and else sends as null
\* (a document with no domain)
DeleteMatches(c, u, ignoreUndefined) ==
  /\ u.exists
  /\ IF ~IsSuper(c) THEN u.domain = OrEmpty(Callers[c].domain)
     ELSE IF ignoreUndefined THEN TRUE
     ELSE u.domain = Undefined

userDeleteUserBody(c, id, fails, ignoreUndefined) ==
  LET op == "userDeleteUser"
  IN IF fails
     THEN [o |-> composeErrorResponse(op, c, id, "StoreError"), st |-> store]
     ELSE IF ~DeleteMatches(c, store[id], ignoreUndefined)
     THEN [o |-> composeErrorResponse(op, c, id, "User not found, could not delete."), st |-> store]
     ELSE [o |-> OkResponse(op, c, id), st |-> [store EXCEPT ![id] = NoUser]]

userDeleteUserHandler(c, id) ==
  /\ ~WindowOpen
  /\ \E fails \in BOOLEAN, ignoreUndefined \in BOOLEAN :
       LET r == userDeleteUserBody(c, id, fails, ignoreUndefined) IN Finish(r.o, r.st, id)
  /\ UNCHANGED <<nextId, cache, batches, fetchCalls, windows, req>>

userDeleteUser(c, id) ==
  Ready /\
  IF rolesFilter(anyOf_userDeleteUser, c)
  THEN userDeleteUserHandler(c, id)
  ELSE Refuse("userDeleteUser", c, id, <<>>)

\* --------------------------------------------------------- the system
\* the ids arguments of the users query: none, one stored, one twice, two in
\* the other order than stored, one not stored
IdLists == {<<>>, <<1>>, <<1, 1>>, <<2, 1>>, <<3>>}

\* the module is loaded: an empty loader, a collection with two users
Loaded ==
  /\ store = [k \in Ids |->
                IF k = 1 THEN [exists |-> TRUE, roles |-> {admin}, domain |-> "A"]
                ELSE IF k = 2 THEN [exists |-> TRUE, roles |-> {student}, domain |-> Undefined]
                ELSE NoUser]
  /\ nextId = 3
  /\ cache = [k \in Ids |-> NoPromise]
  /\ batches = [b \in ReqIds |-> FreeBatch]
  /\ fetchCalls = 0
  /\ windows = 0
  /\ req = [r \in ReqIds |-> NoReq]
  /\ out = {}
  /\ mutated = {}

Init == Loaded /\ loadsLeft = FullLoads /\ writesLeft = FullWrites

\* the transport layer sends what the last step returned
Respond ==
  /\ out # {}
  /\ out' = {}
  /\ UNCHANGED <<store, nextId, cache, batches, fetchCalls, windows, req, mutated, loadsLeft, writesLeft>>

Next ==
  \/ \E c \in CallerIds, ids \in IdLists : users(c, ids)
  \/ \E c \in CallerIds : userAvailableRoles(c)
  \/ \E userId \in Ids \cup {EmptyId} : lookupUser(userId)
  \/ \E b \in ReqIds : Dispatch(b)
  \/ \E b \in ReqIds : DbFind(b)
  \/ \E b \in ReqIds : FetchReturn(b)
  \/ \E c \in CallerIds, domain \in DomainArgs : userCreateStudent(c, domain)
  \/ \E c \in CallerIds, id \in Ids, roles \in RoleLists : userChangeRoles(c, id, roles)
  \/ \E c \in CallerIds, id \in Ids, domain \in DomainArgs : userMoveToDomain(c, id, domain)
  \/ \E c \in CallerIds, id \in Ids : userSetSuperUser(c, id)
  \/ \E r \in ReqIds : userSetSuperUserSave(r)
  \/ \E c \in CallerIds, id \in Ids : userDeleteUser(c, id)
  \/ Respond

Spec == Init /\ [][Next]_vars

\* the queries alone, on the collection as it is
InitQueries == Loaded /\ loadsLeft = MaxLoads /\ writesLeft = 0

NextQueries ==
  \/ \E c \in CallerIds, ids \in IdLists : users(c, ids)
  \/ \E c \in CallerIds : userAvailableRoles(c)
  \/ \E userId \in Ids \cup {EmptyId} : lookupUser(userId)
  \/ \E b \in ReqIds : Dispatch(b)
  \/ \E b \in ReqIds : DbFind(b)
  \/ \E b \in ReqIds : FetchReturn(b)
  \/ Respond

SpecQueries == InitQueries /\ [][NextQueries]_vars

\* the gated resolvers with the loader at rest: a users query that would have
\* to wait is not taken
InitGated == Loaded /\ loadsLeft = 0 /\ writesLeft = MaxWrites

NextGated ==
  \/ \E c \in CallerIds, ids \in IdLists : users(c, ids)
  \/ \E c \in CallerIds, domain \in DomainArgs : userCreateStudent(c, domain)
  \/ \E c \in CallerIds, id \in Ids, roles \in RoleLists : userChangeRoles(c, id, roles)
  \/ \E c \in CallerIds, id \in Ids, domain \in DomainArgs : userMoveToDomain(c, id, domain)
  \/ \E c \in CallerIds, id \in Ids : userSetSuperUser(c, id)
  \/ \E r \in ReqIds : userSetSuperUserSave(r)
  \/ \E c \in CallerIds, id \in Ids : userDeleteUser(c, id)
  \/ Respond

SpecGated == InitGated /\ [][NextGated]_vars


\* ============================================================== claims
Gated == {"users", "userCreateStudent", "userChangeRoles", "userMoveToDomain",
          "userSetSuperUser", "userDeleteUser"}

\* the roles that open each gated resolver
PolicyRoles(op) ==
  IF op = "users" THEN {admin, super, teacher}
  ELSE IF op = "userSetSuperUser" THEN {super}
  ELSE {admin, super}

Allowed(op, c) == Callers[c].roles \cap PolicyRoles(op) # {}

\* C1: a gated resolver called by a caller who holds none of its policy's roles
\* fails with the authorization error, its handler does not run, and the store
\* and the loader (cache, window, fetch count) stay as they were; a caller who
\* holds one of the roles gets the handler run.  userSetSuperUser opens for super
\* alone.
C1_GateBeforeHandler ==
  /\ [][\A o \in out' :
          o.op \in Gated =>
            /\ o.invoked <=> Allowed(o.op, o.caller)
            /\ ~Allowed(o.op, o.caller) =>
                 /\ o.kind = "authError"
                 /\ UNCHANGED <<store, nextId, cache, batches, fetchCalls, windows, req>>]_vars
  /\ [](\A r \in ReqIds :
          /\ req[r].pc = "users" => Allowed("users", req[r].caller)
          /\ req[r].pc = "setSuper" => Allowed("userSetSuperUser", req[r].caller))

\* an admin is refused userSetSuperUser while that of a super caller is under way
C1_Witness ==
  /\ \E r \in ReqIds : req[r].pc = "setSuper"
  /\ \E o \in out : o.op = "userSetSuperUser" /\ o.caller = 2 /\ o.kind = "authError"

\* C2: the loads of one window, whoever issues them and however often a key is
\* repeated, lead to one call of the batch function at dispatch, with the
\* distinct keys that were not cached; fetch calls and dispatched windows are
\* equal in number.
C2_OneFetchPerWindow ==
  /\ [](fetchCalls = windows)
  /\ [](\A b \in ReqIds :
          /\ \A i, j \in 1..Len(batches[b].keys) :
               batches[b].keys[i] = batches[b].keys[j] => i = j
          /\ \A i \in 1..Len(batches[b].keys) :
               cache[batches[b].keys[i]] = Pending(b, i))
  /\ [][/\ fetchCalls' # fetchCalls =>
             /\ fetchCalls' = fetchCalls + 1
             /\ \E b \in ReqIds : /\ batches[b].st = "open"
                                  /\ batches'[b] = [batches[b] EXCEPT !.st = "sent"]
        /\ \A b \in ReqIds :
             batches[b].st = "open" /\ batches'[b].st # "open" => fetchCalls' = fetchCalls + 1]_vars

\* a dispatched window of two keys that two calls wait on, one of them for the
\* same key twice
C2_Witness ==
  \E b \in ReqIds :
    /\ batches[b].st = "sent"
    /\ Len(batches[b].keys) = 2
    /\ fetchCalls = 1
    /\ \A r \in ReqIds : \E i \in 1..Len(req[r].ps) : req[r].ps[i].b = b
    /\ \E r \in ReqIds : Len(req[r].ps) = 2 /\ req[r].ps[1] = req[r].ps[2]

\* the call o found all the keys it loads fulfilled in the cache
AllCached(o) ==
  IF o.op = "users" THEN \A i \in 1..Len(o.ids) : cache[o.ids[i]].st = "val"
  ELSE o.op = "lookupUser" /\ o.id \in Ids /\ cache[o.id].st = "val"

C4_LoadManyKeepsOrder ==
  \A o \in out :
    o.op = "users" /\ o.kind = "value" =>
      /\ Len(o.loaded) = Len(o.ids)
      /\ \A i \in 1..Len(o.ids) : o.loaded[i].id = o.ids[i]

\* C5: a load of a key the store does not hold resolves to "not found" and the
\* loads of the other keys of its window resolve to their users: the loader
\* rejects no load unless the store failed.
C5_AbsentKeyIsNotFound ==
  \A o \in out :
    o.op = "lookupUser" /\ o.kind = "thrown" => o.msg \in {"StoreError", "User not found!"}

\* C6: an authorized users query gives a caller with the super role all the
\* users that match ids, and any other caller those of them whose domain is the
\* caller's own (no domain counting as the empty one on both sides), and no
\* other user.  Stated for a collection that does not change.
Matching(o) == {k \in Range(o.ids) : k \in Ids /\ store[k].exists}

OwnDomain(o, k) ==
  (IF store[k].domain = Undefined THEN "" ELSE store[k].domain)
    = (IF Callers[o.caller].domain = Undefined THEN "" ELSE Callers[o.caller].domain)

C6_ScopedList ==
  \A o \in out :
    o.op = "users" /\ o.kind = "value" =>
      {o.list[i].id : i \in 1..Len(o.list)}
        = {k \in Matching(o) : super \in Callers[o.caller].roles \/ OwnDomain(o, k)}

\* C7: every resolver, whatever the loader or the store does, returns a value or
\* the uniform response; nothing is thrown out of a handler.
C7_NothingThrown ==
  \A o \in out :
    o.invoked /\ o.op # "lookupUser" => o.kind \in {"value", "response"}

SuperUsers(st) == {k \in Ids : st[k].exists /\ super \in st[k].roles}

\* C9: no step of a call by a caller without the super role adds a user to those
\* who hold the super role: a step that adds one returns to a caller with super.
C9_SuperOnlyFromSuper ==
  [][SuperUsers(store') \subseteq SuperUsers(store)
     \/ \E o \in out' : o.invoked /\ super \in Callers[o.caller].roles]_vars

\* an admin asks userChangeRoles for the super role and is turned down
C9_Witness ==
  \E o \in out :
    /\ o.op = "userChangeRoles" /\ o.caller = 2
    /\ ~o.success /\ o.msg = "Can't set super admin role"
    /\ store[o.id].exists

\* C10: after a mutation of user id has reported success, a lookupUser(id) that
\* starts later returns the user as stored now, also when id was loaded before.
C10_ReadAfterWrite ==
  \A o \in out :
    (/\ o.op = "lookupUser" /\ o.kind = "value" /\ ~o.waited
     /\ o.id \in mutated /\ o.loaded # <<>> /\ o.loaded[1].id = o.id)
      => store[o.id].exists /\ o.loaded = <<Doc(o.id, store[o.id])>>

====
